---- MODULE Spec2Model ----
(***************************************************************************)
(* A model of the ADLv1 storage backend (internal/backend_adlv1.go): the   *)
(* path mapper, the error classifier, the multipart emulator, the deletion *)
(* orderer and the listing engine, each run against a model of the remote  *)
(* file system that answers the calls the backend issues.                  *)
(*                                                                         *)
(* Go strings are modelled as sequences of one-character strings, so that  *)
(* trimming, splitting, joining and comparing are computed as the code     *)
(* computes them.                                                          *)
(***************************************************************************)
EXTENDS Integers, Sequences, FiniteSets, TLC

VARIABLES
    bucket,     \* ADLv1.bucket: the root prefix, fixed at construction
    mpPhase,    \* the caller's upload session: "none", "open", "done" (handle dropped)
    handle,     \* the MultipartBlobCommitInput the caller holds
    remoteLen,  \* length of the remote object of the upload session
    calls,      \* remote calls issued since the session's Begin, in order
    adds,       \* declared sizes of the Adds invoked on the handle, in order
    lastOp,     \* the last multipart operation: its calls, their classification, its result
    panicked,   \* the process was aborted by panic()
    fs,         \* the remote file system: path -> "none" | "FILE" | "DIRECTORY"
    delPc,      \* position of DeleteBlobs: "idle", "loop", "returned"
    delItems,   \* param.Items of the running DeleteBlobs (sorted in place)
    delInput,   \* param.Items as the caller passed them
    delIdx,     \* index of the next item of the range loop
    delIssued,  \* keys whose single-key delete was issued, in order
    delPaths,   \* remote paths of the Delete calls issued, in order
    delResults, \* what each DeleteBlob issued returned, in order
    delAnswers, \* what the remote answered to each Delete call, in order
    delErr,     \* the error DeleteBlobs returned
    listOut,    \* the last ListBlobs call: its parameters, remote calls and result
    renOut,     \* the last RenameBlob call: its parameters, remote calls and result
    pathOut,    \* the last application of the path mapper: its key and results
    classOut    \* the last application of the classifier: its arguments and result

mpVars == <<mpPhase, handle, remoteLen, calls, adds, lastOp, panicked>>
delVars ==
    <<delPc, delItems, delInput, delIdx, delIssued, delPaths, delResults, delAnswers, delErr>>
otherVars == <<renOut, pathOut, classOut>>
vars == <<bucket, mpVars, fs, delVars, listOut, otherVars>>

----------------------------------------------------------------------------
(* Bounds of the model *)

\* Adds invoked on one handle
MaxAdds == 3
\* Keys in one DeleteBlobs batch
MaxBatch == 3
\* Entries (files and directories) of the remote tree that is listed
MaxNodes == 3
\* Entries of the remote tree that DeleteBlobs and RenameBlob work on
MaxDelNodes == 2
\* Characters of a key handed to the path mapper
MaxKeyLen == 4
\* Adds of an upload session whose classifier invocations are followed
MaxLoggedAdds == 2

----------------------------------------------------------------------------
(* Strings *)

Chars == {"/", "a", "b"}

\* byte values, as strings.Compare orders them
CharCode(c) ==
    CASE c = "/" -> 47 [] c = "a" -> 97 [] c = "b" -> 98 [] c = "r" -> 114 [] OTHER -> 255

RECURSIVE TrimLeft(_)
\* strings.TrimLeft(s, "/")
TrimLeft(s) == IF s # <<>> /\ Head(s) = "/" THEN TrimLeft(Tail(s)) ELSE s

RECURSIVE TrimRight(_)
\* strings.TrimRight(s, "/")
TrimRight(s) ==
    IF s # <<>> /\ s[Len(s)] = "/" THEN TrimRight(SubSeq(s, 1, Len(s) - 1)) ELSE s

\* strings.HasSuffix(s, "/")
HasSuffix(s) == s # <<>> /\ s[Len(s)] = "/"

RECURSIVE Split(_)
\* strings.Split(s, "/")
Split(s) ==
    IF \A i \in 1..Len(s) : s[i] # "/"
    THEN <<s>>
    ELSE LET i == CHOOSE k \in 1..Len(s) : s[k] = "/" /\ \A j \in 1..(k - 1) : s[j] # "/"
         IN  <<SubSeq(s, 1, i - 1)>> \o Split(SubSeq(s, i + 1, Len(s)))

\* strings.HasPrefix(s, p)
HasPrefix(s, p) == Len(s) >= Len(p) /\ SubSeq(s, 1, Len(p)) = p

RECURSIVE StrLess(_, _)
\* strings.Compare(a, b) < 0
StrLess(a, b) ==
    IF b = <<>> THEN FALSE
    ELSE IF a = <<>> THEN TRUE
    ELSE IF Head(a) # Head(b) THEN CharCode(Head(a)) < CharCode(Head(b))
    ELSE StrLess(Tail(a), Tail(b))

----------------------------------------------------------------------------
(* Path Mapper *)

pathWithoutEmptyKeyCase(key) ==
    LET k == TrimLeft(key)
    IN  IF bucket # <<>> THEN bucket \o <<"/">> \o k ELSE k

\* ADLv1.path
path(key) ==
    LET k == TrimLeft(key)
    IN  IF bucket # <<>>
        THEN IF k # <<>> THEN bucket \o <<"/">> \o k ELSE bucket
        ELSE k

----------------------------------------------------------------------------
(* Error Classifier *)

\* error values: nil, an errno, or an ADLv1Err carrying the response
NoErr == [kind |-> "nil", errno |-> "", status |-> 0, exception |-> ""]
Errno(e) == [kind |-> "errno", errno |-> e, status |-> 0, exception |-> ""]
ADLv1Err(s, x) == [kind |-> "ADLv1Err", errno |-> "", status |-> s, exception |-> x]

EAGAIN == Errno("EAGAIN")
EINVAL == Errno("EINVAL")
ENOENT == Errno("ENOENT")
EACCES == Errno("EACCES")
ENOTSUP == Errno("ENOTSUP")
EEXIST == Errno("EEXIST")

\* an *http.Response (nil or not), with its body as json.Decoder sees it
NilResp == [isNil |-> TRUE, status |-> 0, parses |-> FALSE, exception |-> ""]
Resp(s, p, x) == [isNil |-> FALSE, status |-> s, parses |-> p, exception |-> x]

\* the generic status table, mapHttpError
mapHttpError(status) ==
    CASE status = 400 -> EINVAL
      [] status = 401 -> EACCES
      [] status = 403 -> EACCES
      [] status = 404 -> ENOENT
      [] status = 405 -> ENOTSUP
      [] status = 429 -> EAGAIN
      [] status = 500 -> EAGAIN
      [] OTHER -> NoErr

mapADLv1ErrorUnparsedInvalid(resp, err, rawError) ==
    IF resp.isNil
    THEN IF err # NoErr THEN EAGAIN ELSE err
    ELSE IF resp.status < 200 \/ resp.status >= 300
         THEN IF rawError
              THEN IF resp.parses
                   THEN ADLv1Err(resp.status, resp.exception)
                   ELSE EINVAL
              ELSE IF mapHttpError(resp.status) # NoErr
                   THEN mapHttpError(resp.status)
                   ELSE EINVAL
         ELSE NoErr

\* mapADLv1Error(resp, err, rawError); err is the transport error, or NoErr
mapADLv1Error(resp, err, rawError) ==
    IF resp.isNil
    THEN IF err # NoErr THEN EAGAIN ELSE err
    ELSE IF resp.status < 200 \/ resp.status >= 300
         THEN IF rawError
              THEN IF resp.parses
                   THEN ADLv1Err(resp.status, resp.exception)
                   ELSE EAGAIN
              ELSE IF mapHttpError(resp.status) # NoErr
                   THEN mapHttpError(resp.status)
                   ELSE EINVAL
         ELSE NoErr

----------------------------------------------------------------------------
(* What the remote can answer *)

Statuses == {200, 400, 403, 404, 500, 503}
Exceptions == {"BadOffsetException", "FileNotFoundException", ""}
TransportErr == Errno("transport")

\* (response, transport error) pairs the SDK can hand back
Replies ==
    {[resp |-> NilResp, err |-> TransportErr]}
    \cup {[resp |-> Resp(200, FALSE, ""), err |-> NoErr]}
    \cup {[resp |-> Resp(s, FALSE, ""), err |-> TransportErr] : s \in Statuses \ {200}}
    \cup {[resp |-> Resp(s, TRUE, x), err |-> TransportErr] :
             s \in Statuses \ {200}, x \in Exceptions}

Is2xx(reply) == ~reply.resp.isNil /\ reply.resp.status >= 200 /\ reply.resp.status < 300

\* an answer to one call: the reply, and whether the remote applied the call
Outcomes == [reply : Replies, landed : BOOLEAN]

----------------------------------------------------------------------------
(* Multipart Emulator *)

\* declared sizes of the parts a caller adds
Sizes == {50, 100}
\* logical keys uploaded to
MPKeys == {<<"a">>, <<"/", "a">>}
\* uuid.NewV4 values (String() of each parses back with uuid.FromString)
Leases == {"lease1", "lease2"}
ADLv1Data == "ADLv1MultipartBlobCommitInput"
ForeignData == "otherBackendData"

NoHandle == [Key |-> <<>>, UploadId |-> "", Size |-> 0, backendData |-> ""]
NoOp == [op |-> "none", size |-> 0, calls |-> <<>>, class |-> <<>>, err |-> NoErr,
         panic |-> FALSE, log |-> <<>>, inspected |-> FALSE]

\* one invocation of the classifier: the remote call of the operation whose
\* result it was handed (0 when it was handed no call's result) and its verdict
Classified(k, e) == [call |-> k, err |-> e]

\* uuid.FromString succeeds on what uuid.String produced
UuidParses(s) == s \in Leases
UuidErr == Errno("uuid")

\* client.Create(path, "", overwrite=true, DATA, leaseId, mode)
CreateCall(p, lease) ==
    [op |-> "CREATE", path |-> p, hasOffset |-> FALSE, offset |-> 0, len |-> 0,
     syncFlag |-> "DATA", overwrite |-> TRUE, leaseId |-> lease, sessionId |-> ""]

\* client.Append(path, body, offset, syncFlag, leaseId, fileSessionId)
AppendCall(p, hasOff, off, n, flag, lease) ==
    [op |-> "APPEND", path |-> p, hasOffset |-> hasOff, offset |-> off, len |-> n,
     syncFlag |-> flag, overwrite |-> FALSE, leaseId |-> lease, sessionId |-> lease]

\* the remote takes an append only at the end of the object
Accepts(rlen, call) ==
    CASE call.op = "APPEND" -> ~call.hasOffset \/ call.offset = rlen
      [] OTHER -> TRUE

\* an outcome the remote can produce for a call when the object is rlen long
ValidOutcome(rlen, call, o) ==
    /\ o.landed => Accepts(rlen, call)
    /\ Is2xx(o.reply) => o.landed

\* the object's length after the call
AfterCall(rlen, call, o) ==
    IF ~o.landed THEN rlen
    ELSE CASE call.op = "APPEND" -> rlen + call.len
           [] call.op = "CREATE" -> 0
           [] OTHER -> 0

\* the structured error that makes uploadPart probe
IsBadOffset(e) ==
    e.kind = "ADLv1Err" /\ e.status = 400 /\ e.exception = "BadOffsetException"

dataAppendCallAtNewSize(commit, size, offset) ==
    AppendCall(commit.Key, TRUE, offset, size, "DATA", commit.UploadId)

\* the data append of uploadPart
dataAppendCall(commit, size, offset) ==
    AppendCall(commit.Key, TRUE, offset - size, size, "DATA", commit.UploadId)

probeCallWithoutClose(commit, offset) ==
    AppendCall(commit.Key, TRUE, offset, 0, "DATA", commit.UploadId)

probeCallAtAnyOffset(commit, offset) ==
    AppendCall(commit.Key, FALSE, 0, 0, "CLOSE", commit.UploadId)

\* the zero-length append of detectTransientError
probeCall(commit, offset) ==
    AppendCall(commit.Key, TRUE, offset, 0, "CLOSE", commit.UploadId)

detectTransientErrorUnclassified(commit, offset, o) ==
    IF ~UuidParses(commit.UploadId)
    THEN [err |-> UuidErr, calls |-> <<>>, class |-> <<>>, log |-> <<>>,
          inspected |-> FALSE]
    ELSE [err |-> o.reply.err, calls |-> <<probeCall(commit, offset)>>,
          class |-> <<o.reply.err>>, log |-> <<>>, inspected |-> FALSE]

\* ADLv1.detectTransientError
detectTransientError(commit, offset, o) ==
    IF ~UuidParses(commit.UploadId)
    THEN [err |-> UuidErr, calls |-> <<>>, class |-> <<>>, log |-> <<>>,
          inspected |-> FALSE]
    ELSE LET e == mapADLv1Error(o.reply.resp, o.reply.err, FALSE)
         IN  [err |-> e, calls |-> <<probeCall(commit, offset)>>, class |-> <<e>>,
              log |-> <<Classified(2, e)>>, inspected |-> FALSE]

uploadPartNotFoundVerbatim(commit, size, offset, o1, o2) ==
    IF ~UuidParses(commit.UploadId)
    THEN [err |-> UuidErr, calls |-> <<>>, class |-> <<>>, log |-> <<>>,
          inspected |-> FALSE]
    ELSE
    LET c1 == dataAppendCall(commit, size, offset)
        e1 == mapADLv1Error(o1.reply.resp, o1.reply.err, TRUE)
        probe == detectTransientError(commit, offset, o2)
        mapped == mapADLv1Error(Resp(e1.status, TRUE, e1.exception), e1, FALSE)
    IN  IF e1 # NoErr /\ e1.kind = "ADLv1Err"
        THEN IF IsBadOffset(e1)
             THEN [err |-> IF probe.err = NoErr THEN NoErr ELSE mapped,
                   calls |-> <<c1>> \o probe.calls,
                   class |-> <<e1>> \o probe.class,
                   log |-> <<Classified(1, e1)>> \o probe.log \o
                           IF probe.err = NoErr THEN <<>>
                           ELSE <<Classified(1, mapped)>>,
                   inspected |-> TRUE]
             ELSE [err |-> mapped, calls |-> <<c1>>, class |-> <<e1>>,
                   log |-> <<Classified(1, e1), Classified(1, mapped)>>,
                   inspected |-> TRUE]
        ELSE [err |-> e1, calls |-> <<c1>>, class |-> <<e1>>,
              log |-> <<Classified(1, e1)>>, inspected |-> FALSE]

uploadPartReturnsProbeError(commit, size, offset, o1, o2) ==
    IF ~UuidParses(commit.UploadId)
    THEN [err |-> UuidErr, calls |-> <<>>, class |-> <<>>, log |-> <<>>,
          inspected |-> FALSE]
    ELSE
    LET c1 == dataAppendCall(commit, size, offset)
        e1 == mapADLv1Error(o1.reply.resp, o1.reply.err, TRUE)
        probe == detectTransientError(commit, offset, o2)
        mapped == mapADLv1Error(Resp(e1.status, TRUE, e1.exception), e1, FALSE)
    IN  IF e1 # NoErr /\ e1.kind = "ADLv1Err"
        THEN IF e1.status = 404
             THEN [err |-> EINVAL, calls |-> <<c1>>, class |-> <<e1>>,
                   log |-> <<Classified(1, e1)>>, inspected |-> TRUE]
             ELSE IF IsBadOffset(e1)
                  THEN [err |-> probe.err,
                        calls |-> <<c1>> \o probe.calls,
                        class |-> <<e1>> \o probe.class,
                        log |-> <<Classified(1, e1)>> \o probe.log,
                        inspected |-> TRUE]
                  ELSE [err |-> mapped, calls |-> <<c1>>, class |-> <<e1>>,
                        log |-> <<Classified(1, e1), Classified(1, mapped)>>,
                        inspected |-> TRUE]
        ELSE [err |-> e1, calls |-> <<c1>>, class |-> <<e1>>,
              log |-> <<Classified(1, e1)>>, inspected |-> FALSE]

\* ADLv1.uploadPart; o1 answers the data append, o2 the probe (when issued)
uploadPart(commit, size, offset, o1, o2) ==
    IF ~UuidParses(commit.UploadId)
    THEN [err |-> UuidErr, calls |-> <<>>, class |-> <<>>, log |-> <<>>,
          inspected |-> FALSE]
    ELSE
    LET c1 == dataAppendCall(commit, size, offset)
        e1 == mapADLv1Error(o1.reply.resp, o1.reply.err, TRUE)
        probe == detectTransientError(commit, offset, o2)
        mapped == mapADLv1Error(Resp(e1.status, TRUE, e1.exception), e1, FALSE)
    IN  IF e1 # NoErr /\ e1.kind = "ADLv1Err"
        THEN IF e1.status = 404
             THEN [err |-> EINVAL, calls |-> <<c1>>, class |-> <<e1>>,
                   log |-> <<Classified(1, e1)>>, inspected |-> TRUE]
             ELSE IF IsBadOffset(e1)
                  THEN [err |-> IF probe.err = NoErr THEN NoErr ELSE mapped,
                        calls |-> <<c1>> \o probe.calls,
                        class |-> <<e1>> \o probe.class,
                        log |-> <<Classified(1, e1)>> \o probe.log \o
                                IF probe.err = NoErr THEN <<>>
                                ELSE <<Classified(1, mapped)>>,
                        inspected |-> TRUE]
                  ELSE [err |-> mapped, calls |-> <<c1>>, class |-> <<e1>>,
                        log |-> <<Classified(1, e1), Classified(1, mapped)>>,
                        inspected |-> TRUE]
        ELSE [err |-> e1, calls |-> <<c1>>, class |-> <<e1>>,
              log |-> <<Classified(1, e1)>>, inspected |-> FALSE]

\* ADLv1.MultipartBlobBegin
MultipartBlobBegin ==
    /\ mpPhase = "none"
    /\ ~panicked
    /\ \E key \in MPKeys, uuidOk \in BOOLEAN, lease \in Leases, o \in Outcomes :
          IF ~uuidOk
          THEN /\ lastOp' = [NoOp EXCEPT !.op = "Begin", !.err = UuidErr]
               /\ mpPhase' = "none"
               /\ handle' = NoHandle
               /\ calls' = <<>>
               /\ adds' = <<>>
               /\ UNCHANGED remoteLen
          ELSE LET c == CreateCall(path(key), lease)
                   e == mapADLv1Error(o.reply.resp, o.reply.err, FALSE)
               IN  /\ ValidOutcome(remoteLen, c, o)
                   /\ remoteLen' = AfterCall(remoteLen, c, o)
                   /\ calls' = <<c>>
                   /\ adds' = <<>>
                   /\ lastOp' = [NoOp EXCEPT !.op = "Begin", !.calls = <<c>>,
                                             !.class = <<e>>, !.err = e,
                                             !.log = <<Classified(1, e)>>]
                   /\ IF e # NoErr
                      THEN mpPhase' = "none" /\ handle' = NoHandle
                      ELSE /\ mpPhase' = "open"
                           /\ handle' = [Key |-> path(key), UploadId |-> lease,
                                          Size |-> 0, backendData |-> ADLv1Data]
    /\ UNCHANGED <<bucket, panicked, fs, delVars, listOut, otherVars>>

\* a caller hands in a commit handle whose backendData another backend made
ForeignHandle ==
    /\ mpPhase = "none"
    /\ ~panicked
    /\ \E key \in MPKeys, lease \in Leases :
          handle' = [Key |-> path(key), UploadId |-> lease, Size |-> 0,
                     backendData |-> ForeignData]
    /\ mpPhase' = "open"
    /\ calls' = <<>>
    /\ adds' = <<>>
    /\ lastOp' = NoOp
    /\ UNCHANGED <<bucket, remoteLen, panicked, fs, delVars, listOut, otherVars>>

MultipartBlobAddRollsBack ==
    /\ mpPhase = "open"
    /\ ~panicked
    /\ Len(adds) < MaxAdds
    /\ \E size \in Sizes, o1 \in Outcomes :
       \E o2 \in IF IsBadOffset(mapADLv1Error(o1.reply.resp, o1.reply.err, TRUE))
                 THEN Outcomes ELSE {o1} :
          IF handle.backendData # ADLv1Data
          THEN /\ panicked' = TRUE
               /\ lastOp' = [NoOp EXCEPT !.op = "Add", !.size = size, !.panic = TRUE]
               /\ UNCHANGED <<handle, remoteLen, calls, adds, mpPhase>>
          ELSE LET commit == [handle EXCEPT !.Size = @ + size]
                   r == uploadPart(commit, size, commit.Size, o1, o2)
                   len1 == IF Len(r.calls) >= 1
                           THEN AfterCall(remoteLen, r.calls[1], o1) ELSE remoteLen
                   len2 == IF Len(r.calls) >= 2
                           THEN AfterCall(len1, r.calls[2], o2) ELSE len1
               IN  /\ Len(r.calls) >= 1 => ValidOutcome(remoteLen, r.calls[1], o1)
                   /\ Len(r.calls) >= 2 => ValidOutcome(len1, r.calls[2], o2)
                   /\ handle' = IF r.err # NoErr THEN handle ELSE commit
                   /\ remoteLen' = len2
                   /\ calls' = calls \o r.calls
                   /\ adds' = Append(adds, size)
                   /\ lastOp' = [NoOp EXCEPT !.op = "Add", !.size = size,
                                             !.calls = r.calls, !.class = r.class,
                                             !.err = r.err, !.log = r.log,
                                             !.inspected = r.inspected]
                   /\ UNCHANGED <<mpPhase, panicked>>
    /\ UNCHANGED <<bucket, fs, delVars, listOut, otherVars>>

\* ADLv1.MultipartBlobAdd
MultipartBlobAdd ==
    /\ mpPhase = "open"
    /\ ~panicked
    /\ Len(adds) < MaxAdds
    /\ \E size \in Sizes, o1 \in Outcomes :
       \E o2 \in IF IsBadOffset(mapADLv1Error(o1.reply.resp, o1.reply.err, TRUE))
                 THEN Outcomes ELSE {o1} :
          IF handle.backendData # ADLv1Data
          THEN /\ panicked' = TRUE
               /\ lastOp' = [NoOp EXCEPT !.op = "Add", !.size = size, !.panic = TRUE]
               /\ UNCHANGED <<handle, remoteLen, calls, adds, mpPhase>>
          ELSE LET commit == [handle EXCEPT !.Size = @ + size]
                   r == uploadPart(commit, size, commit.Size, o1, o2)
                   len1 == IF Len(r.calls) >= 1
                           THEN AfterCall(remoteLen, r.calls[1], o1) ELSE remoteLen
                   len2 == IF Len(r.calls) >= 2
                           THEN AfterCall(len1, r.calls[2], o2) ELSE len1
               IN  /\ Len(r.calls) >= 1 => ValidOutcome(remoteLen, r.calls[1], o1)
                   /\ Len(r.calls) >= 2 => ValidOutcome(len1, r.calls[2], o2)
                   /\ handle' = commit
                   /\ remoteLen' = len2
                   /\ calls' = calls \o r.calls
                   /\ adds' = Append(adds, size)
                   /\ lastOp' = [NoOp EXCEPT !.op = "Add", !.size = size,
                                             !.calls = r.calls, !.class = r.class,
                                             !.err = r.err, !.log = r.log,
                                             !.inspected = r.inspected]
                   /\ UNCHANGED <<mpPhase, panicked>>
    /\ UNCHANGED <<bucket, fs, delVars, listOut, otherVars>>

abortCallAtSize(h) == AppendCall(h.Key, TRUE, h.Size, 0, "CLOSE", h.UploadId)

\* the append MultipartBlobAbort issues
abortCall(h) == AppendCall(h.Key, FALSE, 0, 0, "CLOSE", h.UploadId)

\* ADLv1.MultipartBlobAbort
MultipartBlobAbort ==
    /\ mpPhase = "open"
    /\ ~panicked
    /\ \E o \in Outcomes :
          IF ~UuidParses(handle.UploadId)
          THEN /\ lastOp' = [NoOp EXCEPT !.op = "Abort", !.err = UuidErr]
               /\ UNCHANGED <<remoteLen, calls>>
          ELSE LET c == abortCall(handle)
                   e == mapADLv1Error(o.reply.resp, o.reply.err, FALSE)
               IN  /\ ValidOutcome(remoteLen, c, o)
                   /\ remoteLen' = AfterCall(remoteLen, c, o)
                   /\ calls' = Append(calls, c)
                   /\ lastOp' = [NoOp EXCEPT !.op = "Abort", !.calls = <<c>>,
                                             !.class = <<e>>, !.err = e,
                                             !.log = <<Classified(1, e)>>]
    /\ mpPhase' = "done"
    /\ UNCHANGED <<bucket, handle, adds, panicked, fs, delVars, listOut, otherVars>>

\* the append MultipartBlobCommit issues
commitCall(h) == AppendCall(h.Key, TRUE, h.Size, 0, "CLOSE", h.UploadId)

commitResultVerbatim(e) == e

\* what MultipartBlobCommit returns for the classified error of its append
commitResult(e) == IF e = ENOENT THEN NoErr ELSE e

\* ADLv1.MultipartBlobCommit
MultipartBlobCommit ==
    /\ mpPhase = "open"
    /\ ~panicked
    /\ \E o \in Outcomes :
          IF handle.backendData # ADLv1Data
          THEN /\ panicked' = TRUE
               /\ lastOp' = [NoOp EXCEPT !.op = "Commit", !.panic = TRUE]
               /\ UNCHANGED <<remoteLen, calls, mpPhase>>
          ELSE /\ mpPhase' = "done"
               /\ UNCHANGED panicked
               /\ IF ~UuidParses(handle.UploadId)
                  THEN /\ lastOp' = [NoOp EXCEPT !.op = "Commit", !.err = UuidErr]
                       /\ UNCHANGED <<remoteLen, calls>>
                  ELSE LET c == commitCall(handle)
                           e == mapADLv1Error(o.reply.resp, o.reply.err, FALSE)
                       IN  /\ ValidOutcome(remoteLen, c, o)
                           /\ remoteLen' = AfterCall(remoteLen, c, o)
                           /\ calls' = Append(calls, c)
                           /\ lastOp' = [NoOp EXCEPT !.op = "Commit", !.calls = <<c>>,
                                                     !.class = <<e>>,
                                                     !.err = commitResult(e),
                                                     !.log = <<Classified(1, e)>>]
    /\ UNCHANGED <<bucket, handle, adds, fs, delVars, listOut, otherVars>>

----------------------------------------------------------------------------
(* The remote file system *)

\* names of directory entries, in the order the remote lists them
Names == <<"a", "b">>
NameSet == {Names[i] : i \in 1..Len(Names)}

\* a tree below the root: the paths of its files and of its directories
EmptyFs == [files |-> {}, dirs |-> {}]
Child(p, n) == IF p = <<>> THEN <<n>> ELSE p \o <<"/", n>>
Exists(t, p) == p \in t.files \/ p \in t.dirs
FreeSlots(t) ==
    {pn \in (t.dirs \cup {<<>>}) \X NameSet : ~Exists(t, Child(pn[1], pn[2]))}
Grow(t) ==
    {[t EXCEPT !.files = @ \cup {Child(pn[1], pn[2])}] : pn \in FreeSlots(t)}
    \cup {[t EXCEPT !.dirs = @ \cup {Child(pn[1], pn[2])}] : pn \in FreeSlots(t)}

RECURSIVE Trees(_)
\* the trees of at most n entries
Trees(n) ==
    IF n = 0 THEN {EmptyFs}
    ELSE LET s == Trees(n - 1) IN s \cup UNION {Grow(t) : t \in s}

RECURSIVE JoinSlash(_)
JoinSlash(parts) ==
    IF parts = <<>> THEN <<>>
    ELSE IF Len(parts) = 1 THEN parts[1]
    ELSE parts[1] \o <<"/">> \o JoinSlash(Tail(parts))

NonEmpty(s) == s # <<>>
\* the remote resolves a path by its non-empty components
Normalize(p) == JoinSlash(SelectSeq(Split(p), NonEmpty))

\* the path below the bucket directory that a remote path names; Outside when
\* it is not below it
Outside == <<"?">>
BelowBucket(p) ==
    LET q == Normalize(p)
    IN  IF bucket = <<>> THEN q
        ELSE IF q = bucket THEN <<>>
        ELSE IF HasPrefix(q, bucket \o <<"/">>)
             THEN SubSeq(q, Len(bucket) + 2, Len(q))
             ELSE Outside

\* FileStatus.Type of a remote path, "none" when nothing is there
TypeOf(t, p) ==
    LET q == BelowBucket(p)
    IN  IF q = <<>> THEN "DIRECTORY"
        ELSE IF q \in t.dirs THEN "DIRECTORY"
        ELSE IF q \in t.files THEN "FILE"
        ELSE "none"

\* the entries directly below a remote directory
HasChildren(t, p) ==
    \E n \in NameSet : Exists(t, Child(BelowBucket(p), n))

\* FileStatuses.FileStatus of a LISTSTATUS on a remote path that exists
FileStatuses(t, p) ==
    LET q == BelowBucket(p)
        Present(n) == Exists(t, Child(q, n))
        Entry(n) == [PathSuffix |-> <<n>>,
                     Type |-> IF Child(q, n) \in t.dirs THEN "DIRECTORY" ELSE "FILE"]
        present == SelectSeq(Names, Present)
    IN  IF TypeOf(t, p) = "FILE"
        THEN <<[PathSuffix |-> <<>>, Type |-> "FILE"]>>
        ELSE [i \in 1..Len(present) |-> Entry(present[i])]

\* replies by which a call fails whatever the tree holds
FailReplies ==
    {r \in Replies : ~Is2xx(r) /\ (r.resp.isNil \/ (r.resp.parses /\ r.resp.exception = ""))}
OkReply == [resp |-> Resp(200, FALSE, ""), err |-> NoErr]
NotFoundReply == [resp |-> Resp(404, TRUE, "FileNotFoundException"), err |-> TransportErr]
ForbiddenReply == [resp |-> Resp(403, TRUE, ""), err |-> TransportErr]

----------------------------------------------------------------------------
(* Listing Engine *)

\* a *string parameter: nil, or a string
Nil == [isNil |-> TRUE, val |-> <<>>]
Str(v) == [isNil |-> FALSE, val |-> v]
\* nilStr
nilStr(v) == IF v.isNil THEN <<>> ELSE v.val

\* a listing call that fails whatever the tree holds: the key listed and the reply
NoKey == <<"-">>
NoFailure == [failKey |-> NoKey, reply |-> OkReply]

\* client.ListFileStatus on a remote path, as answered under the oracle
ListReply(t, key, p, oracle) ==
    IF oracle.failKey = key THEN oracle.reply
    ELSE IF TypeOf(t, p) = "none" THEN NotFoundReply
    ELSE OkReply

\* the synthesized row for the listed path itself (non-recursive listings)
selfPrefixes(pth, recursive, prefixes) ==
    IF pth # <<>> /\ ~recursive /\ ~HasSuffix(pth)
    THEN Append(prefixes, pth \o <<"/">>)
    ELSE prefixes

selfItems(pth, recursive, items) ==
    IF pth # <<>> /\ ~recursive /\ HasSuffix(pth) THEN Append(items, pth) ELSE items

fileItemsAlways(pth, items) == Append(items, pth)

\* the rows appendToListResults returns when the path is a file
fileItems(pth, items) == IF ~HasSuffix(pth) THEN Append(items, pth) ELSE items

descendsAlways(recursive) == TRUE

\* whether the loop descends into a directory entry
descends(recursive) == recursive

RECURSIVE appendToListResults(_, _, _, _, _, _)
RECURSIVE listLoop(_, _, _, _, _, _, _)

\* ADLv1.appendToListResults; calls holds the listing calls issued, each with the
\* key listed, the remote path and the classified error
appendToListResults(t, pth, recursive, prefixes, items, oracle) ==
    LET rp == path(pth)
        reply == ListReply(t, pth, rp, oracle)
        err == mapADLv1Error(reply.resp, reply.err, FALSE)
        call == [key |-> pth, path |-> rp, err |-> err]
        entries == FileStatuses(t, rp)
    IN  IF err # NoErr
        THEN [prefixes |-> <<>>, items |-> <<>>, err |-> err, calls |-> <<call>>]
        ELSE IF pth # <<>> /\ Len(entries) = 1 /\ entries[1].PathSuffix = <<>>
        THEN [prefixes |-> prefixes, items |-> fileItems(pth, items), err |-> NoErr,
              calls |-> <<call>>]
        ELSE LET acc == [prefixes |-> selfPrefixes(pth, recursive, prefixes),
                         items |-> selfItems(pth, recursive, items),
                         calls |-> <<call>>]
                 r == listLoop(t, entries, 1, TrimRight(pth), recursive, acc, oracle)
             IN  [prefixes |-> r.prefixes, items |-> r.items, err |-> NoErr,
                  calls |-> r.calls]

\* the range loop of appendToListResults, from entry i on
listLoop(t, entries, i, pth, recursive, acc, oracle) ==
    IF i > Len(entries) THEN acc
    ELSE
    LET e == entries[i]
        key == IF pth # <<>> THEN pth \o <<"/">> \o e.PathSuffix ELSE e.PathSuffix
    IN  IF e.Type = "DIRECTORY"
        THEN IF descends(recursive)
             THEN LET sub == appendToListResults(t, key, recursive, acc.prefixes,
                                                 Append(acc.items, key \o <<"/">>), oracle)
                  IN  listLoop(t, entries, i + 1, pth, recursive,
                               [prefixes |-> sub.prefixes, items |-> sub.items,
                                calls |-> acc.calls \o sub.calls], oracle)
             ELSE listLoop(t, entries, i + 1, pth, recursive,
                           [acc EXCEPT !.prefixes = Append(@, key \o <<"/">>)], oracle)
        ELSE listLoop(t, entries, i + 1, pth, recursive,
                      [acc EXCEPT !.items = Append(@, key)], oracle)

listUnsupportedNoStartAfter(delimiter, token, startAfter) ==
    IF delimiter.isNil THEN ~token.isNil ELSE delimiter.val # <<"/">>

\* whether ListBlobs refuses the parameters
listUnsupported(delimiter, token, startAfter) ==
    IF delimiter.isNil
    THEN ~token.isNil \/ ~startAfter.isNil
    ELSE delimiter.val # <<"/">>

\* parameters callers list with
PrefixArgs(t) ==
    {Nil} \cup {Str(q) : q \in {<<>>, <<"a">>, <<"a", "/">>}}
          \cup {Str(q) : q \in t.files \cup t.dirs}
          \cup {Str(q \o <<"/">>) : q \in t.files \cup t.dirs}
DelimiterArgs == {Nil, Str(<<"/">>), Str(<<",">>), Str(<<>>)}
TokenArgs == {Nil, Str(<<"a">>)}
Oracles(t, prefix) ==
    {NoFailure} \cup [failKey : {nilStr(prefix)} \cup t.dirs, reply : FailReplies]

NoList == [called |-> FALSE, prefix |-> Nil, delimiter |-> Nil, token |-> Nil,
           startAfter |-> Nil, recursive |-> FALSE, calls |-> <<>>,
           prefixes |-> <<>>, items |-> <<>>, err |-> NoErr]

\* ADLv1.ListBlobs
ListBlobs ==
    /\ ~listOut.called
    /\ \E prefix \in PrefixArgs(fs), delimiter \in DelimiterArgs,
          token \in TokenArgs, startAfter \in TokenArgs :
       \E oracle \in IF listUnsupported(delimiter, token, startAfter)
                     THEN {NoFailure} ELSE Oracles(fs, prefix) :
          LET recursive == delimiter.isNil
              r == appendToListResults(fs, nilStr(prefix), recursive, <<>>, <<>>, oracle)
              err == IF r.err = ENOENT THEN NoErr ELSE r.err
              in == [NoList EXCEPT !.called = TRUE, !.prefix = prefix,
                                   !.delimiter = delimiter, !.token = token,
                                   !.startAfter = startAfter, !.recursive = recursive]
          IN  IF listUnsupported(delimiter, token, startAfter)
              THEN listOut' = [in EXCEPT !.err = ENOTSUP]
              ELSE IF err # NoErr
              THEN listOut' = [in EXCEPT !.calls = r.calls, !.err = err]
              ELSE listOut' = [in EXCEPT !.calls = r.calls, !.prefixes = r.prefixes,
                                         !.items = r.items]
    /\ UNCHANGED <<bucket, mpVars, fs, delVars, otherVars>>

----------------------------------------------------------------------------
(* Deletion Orderer *)

\* keys callers delete
DelKeys ==
    {<<"a">>, <<"a", "/">>, <<"/", "a">>, <<"b">>,
     <<"a", "/", "a">>, <<"a", "/", "b">>, <<"a", "/", "b", "/">>,
     <<"a", "/", "b", "/", "a">>}
\* param.Items of a DeleteBlobs call
Batches == UNION {[1..n -> DelKeys] : n \in 0..MaxBatch}

\* the depth the comparator of DeleteBlobs gives a key
depth(key) == Len(Split(TrimRight(key)))

\* the less function DeleteBlobs hands to sort.Slice
itemLess(x, y) ==
    IF depth(x) # depth(y) THEN depth(y) < depth(x) ELSE StrLess(x, y)

RECURSIVE insertSorted(_, _)
insertSorted(x, sorted) ==
    IF sorted = <<>> THEN <<x>>
    ELSE IF itemLess(x, Head(sorted)) THEN <<x>> \o sorted
    ELSE <<Head(sorted)>> \o insertSorted(x, Tail(sorted))

RECURSIVE sortSlice(_)
\* sort.Slice(param.Items, less): items that compare equal are the same string
sortSlice(items) ==
    IF items = <<>> THEN <<>> ELSE insertSorted(Head(items), sortSlice(Tail(items)))

\* the remote path DeleteBlob deletes
deletePath(key) == path(TrimRight(key))

\* client.Delete(path, recursive=false) as the tree answers it
DeleteAnswer(t, p) ==
    IF TypeOf(t, p) = "none" THEN [reply |-> OkReply, result |-> FALSE, landed |-> FALSE]
    ELSE IF TypeOf(t, p) = "DIRECTORY" /\ HasChildren(t, p)
    THEN [reply |-> ForbiddenReply, result |-> FALSE, landed |-> FALSE]
    ELSE [reply |-> OkReply, result |-> TRUE, landed |-> TRUE]

\* answers by which a Delete fails whatever the tree holds
DeleteFailures ==
    [reply : {r \in FailReplies : r.resp.isNil \/ r.resp.status = 500},
     result : {FALSE}, landed : BOOLEAN]

\* the tree after a Delete that the remote applied
AfterDelete(t, p, answer) ==
    IF answer.landed /\ TypeOf(t, p) # "none" /\ ~HasChildren(t, p)
    THEN [files |-> t.files \ {BelowBucket(p)}, dirs |-> t.dirs \ {BelowBucket(p)}]
    ELSE t

\* what ADLv1.DeleteBlob returns for an answer
deleteBlobErr(answer) ==
    LET err == mapADLv1Error(answer.reply.resp, answer.reply.err, FALSE)
    IN  IF err # NoErr THEN err
        ELSE IF ~answer.result THEN ENOENT
        ELSE NoErr

deleteAbortsNever(err) == FALSE

\* whether the loop of DeleteBlobs returns on a DeleteBlob result
deleteAborts(err) == err # NoErr

\* ADLv1.DeleteBlobs: the call, which sorts param.Items in place
DeleteBlobsCall ==
    /\ delPc = "idle"
    /\ \E items \in Batches :
          /\ delInput' = items
          /\ delItems' = sortSlice(items)
    /\ delIdx' = 1
    /\ delPc' = "loop"
    /\ UNCHANGED <<bucket, mpVars, fs, delIssued, delPaths, delResults, delAnswers, delErr,
                   listOut, otherVars>>

\* one iteration of the range loop: DeleteBlob of the next item
DeleteBlobsIteration ==
    /\ delPc = "loop"
    /\ delIdx <= Len(delItems)
    /\ LET key == delItems[delIdx]
           p == deletePath(key)
       IN  \E answer \in {DeleteAnswer(fs, p)} \cup DeleteFailures :
              LET err == deleteBlobErr(answer)
              IN  /\ fs' = AfterDelete(fs, p, answer)
                  /\ delIssued' = Append(delIssued, key)
                  /\ delPaths' = Append(delPaths, p)
                  /\ delResults' = Append(delResults, err)
                  /\ delAnswers' = Append(delAnswers, answer)
                  /\ IF deleteAborts(err)
                     THEN /\ delPc' = "returned"
                          /\ delErr' = err
                          /\ UNCHANGED delIdx
                     ELSE /\ delIdx' = delIdx + 1
                          /\ UNCHANGED <<delPc, delErr>>
    /\ UNCHANGED <<bucket, mpVars, delItems, delInput, listOut, otherVars>>

\* the loop ran out of items: DeleteBlobs returns success
DeleteBlobsReturn ==
    /\ delPc = "loop"
    /\ delIdx > Len(delItems)
    /\ delPc' = "returned"
    /\ delErr' = NoErr
    /\ UNCHANGED <<bucket, mpVars, fs, delItems, delInput, delIdx, delIssued, delPaths,
                   delResults, delAnswers, listOut, otherVars>>

----------------------------------------------------------------------------
(* Rename *)

\* keys callers rename from and to
RenKeys == {<<"a">>, <<"/", "a">>, <<"b">>, <<"a", "/", "a">>, <<"b", "/", "a">>}

\* the request RenamePreparer builds for (source, destination)
PreparedRename(src, dst) ==
    [op |-> "RENAME", path |-> src, destination |-> dst, renameoptions |-> ""]

\* the request RenameBlob sends: the prepared one with renameoptions=OVERWRITE added
renameRequest(r) == [r EXCEPT !.renameoptions = "OVERWRITE"]

\* p is q or lies below q
AtOrBelow(p, q) == p = q \/ HasPrefix(p, q \o <<"/">>)
\* the directory holding q
ParentOf(q) ==
    LET c == SelectSeq(Split(q), NonEmpty)
    IN  IF Len(c) <= 1 THEN <<>> ELSE JoinSlash(SubSeq(c, 1, Len(c) - 1))
BaseName(q) ==
    LET c == SelectSeq(Split(q), NonEmpty) IN IF c = <<>> THEN <<>> ELSE c[Len(c)]

\* where a rename puts its source: into the destination when that is a directory
RenameTarget(t, src, dst) ==
    IF TypeOf(t, dst) = "DIRECTORY"
    THEN Normalize(JoinSlash(<<BelowBucket(dst), BaseName(BelowBucket(src))>>))
    ELSE BelowBucket(dst)

\* whether the remote can carry out the rename on the tree
CanRename(t, src, dst) ==
    LET qs == BelowBucket(src)
        tg == RenameTarget(t, src, dst)
    IN  /\ TypeOf(t, src) # "none"
        /\ qs # <<>>
        /\ ~(TypeOf(t, src) = "DIRECTORY" /\ TypeOf(t, dst) = "FILE")
        /\ ~AtOrBelow(tg, qs)
        /\ (ParentOf(tg) = <<>> \/ ParentOf(tg) \in t.dirs)
        /\ ~(tg \in t.dirs /\ \E n \in NameSet : Exists(t, Child(tg, n)))

\* "boolean" of the RENAME response: "true", "false", or "absent" when the body
\* was not decoded and RenameResponder left OperationResult nil
RenameAnswer(t, src, dst) ==
    IF CanRename(t, src, dst)
    THEN [reply |-> OkReply, result |-> "true", landed |-> TRUE]
    ELSE [reply |-> OkReply, result |-> "false", landed |-> FALSE]

\* answers by which a RENAME fails, or is not decoded, whatever the tree holds
RenameFailures ==
    [reply : {r \in FailReplies : r.resp.isNil \/ r.resp.status \in {403, 404, 500}},
     result : {"absent"}, landed : {FALSE}]
    \cup {[reply |-> OkReply, result |-> "absent", landed |-> FALSE]}

\* the tree after a RENAME that the remote applied
AfterRename(t, src, dst, answer) ==
    LET qs == BelowBucket(src)
        tg == RenameTarget(t, src, dst)
        Moved(p) == tg \o SubSeq(p, Len(qs) + 1, Len(p))
        Keep(set) == {p \in set : ~AtOrBelow(p, qs) /\ ~AtOrBelow(p, tg)}
        Move(set) == {Moved(p) : p \in {x \in set : AtOrBelow(x, qs)}}
    IN  IF answer.landed /\ CanRename(t, src, dst)
        THEN [files |-> Keep(t.files) \cup Move(t.files),
              dirs |-> Keep(t.dirs) \cup Move(t.dirs)]
        ELSE t

renameResultIgnored(result) == NoErr

\* what RenameBlob returns for the decoded OperationResult
renameResult(result) == IF result = "false" THEN ENOENT ELSE NoErr

NoRename == [called |-> FALSE, source |-> <<>>, destination |-> <<>>, calls |-> <<>>,
             class |-> <<>>, result |-> "absent", err |-> NoErr, panic |-> FALSE]

\* ADLv1.RenameBlob; class lists the classifier's invocations: the remote call
\* each one judged (0 for the preparer, which calls nothing) and its verdict
RenameBlob ==
    /\ \E src \in RenKeys, dst \in RenKeys, prepared \in BOOLEAN :
       \E answer \in IF prepared
                     THEN {RenameAnswer(fs, path(src), path(dst))} \cup RenameFailures
                     ELSE {RenameAnswer(fs, path(src), path(dst))} :
          LET in == [NoRename EXCEPT !.called = TRUE, !.source = src,
                                     !.destination = dst]
              e0 == mapADLv1Error(NilResp, IF prepared THEN NoErr ELSE TransportErr, FALSE)
              r == renameRequest(PreparedRename(path(src), path(dst)))
              e1 == mapADLv1Error(answer.reply.resp, answer.reply.err, FALSE)
              respErr == IF answer.result = "absent" THEN TransportErr ELSE NoErr
              e2 == mapADLv1Error(answer.reply.resp, respErr, FALSE)
              c0 == Classified(0, e0)
              c1 == Classified(1, e1)
              c2 == Classified(1, e2)
          IN  IF e0 # NoErr
              THEN /\ renOut' = [in EXCEPT !.class = <<c0>>, !.err = e0]
                   /\ UNCHANGED fs
              ELSE /\ fs' = AfterRename(fs, path(src), path(dst), answer)
                   /\ IF e1 # NoErr
                      THEN renOut' = [in EXCEPT !.calls = <<r>>, !.class = <<c0, c1>>,
                                                !.err = e1]
                      ELSE IF e2 # NoErr
                      THEN renOut' = [in EXCEPT !.calls = <<r>>,
                                                !.class = <<c0, c1, c2>>, !.err = e2]
                      ELSE IF answer.result = "absent"
                      THEN renOut' = [in EXCEPT !.calls = <<r>>,
                                                !.class = <<c0, c1, c2>>, !.panic = TRUE]
                      ELSE renOut' = [in EXCEPT !.calls = <<r>>,
                                                !.class = <<c0, c1, c2>>,
                                                !.result = answer.result,
                                                !.err = renameResult(answer.result)]
    /\ UNCHANGED <<bucket, mpVars, delVars, listOut, pathOut, classOut>>

----------------------------------------------------------------------------
(* Applications of the path mapper and of the classifier *)

RECURSIVE KeysOfLen(_)
KeysOfLen(n) ==
    IF n = 0 THEN {<<>>}
    ELSE {Append(k, c) : k \in KeysOfLen(n - 1), c \in Chars}
\* the logical keys of at most MaxKeyLen characters
Keys == UNION {KeysOfLen(n) : n \in 0..MaxKeyLen}

NoPath == [called |-> FALSE, key |-> <<>>, once |-> <<>>, twice |-> <<>>]

\* b.path(key), and b.path of what it returned
ApplyPath ==
    /\ \E key \in Keys :
          pathOut' = [called |-> TRUE, key |-> key, once |-> path(key),
                      twice |-> path(path(key))]
    /\ UNCHANGED <<bucket, mpVars, fs, delVars, listOut, renOut, classOut>>

\* resp.StatusCode values handed to the classifier
ClassStatuses == {100, 199, 200, 204, 299, 300, 400, 401, 403, 404, 405, 418, 429, 500, 503}
\* the (resp, err, rawError) arguments of the classifier
ClassResps ==
    {NilResp} \cup {Resp(st, p, x) : st \in ClassStatuses, p \in BOOLEAN, x \in Exceptions}

NoClass == [called |-> FALSE, resp |-> NilResp, err |-> NoErr, rawError |-> FALSE,
            result |-> NoErr]

\* mapADLv1Error(resp, err, rawError)
ApplyClassifier ==
    /\ \E resp \in ClassResps, err \in {NoErr, TransportErr}, rawError \in BOOLEAN :
          /\ (resp.parses \/ resp.isNil \/ resp.exception = "")
          /\ classOut' = [called |-> TRUE, resp |-> resp, err |-> err,
                          rawError |-> rawError,
                          result |-> mapADLv1Error(resp, err, rawError)]
    /\ UNCHANGED <<bucket, mpVars, fs, delVars, listOut, renOut, pathOut>>

----------------------------------------------------------------------------
(* Construction *)

\* root prefixes a backend is constructed with (NewADLv1's bucket)
Buckets == {<<>>, <<"r">>}

\* no upload session
InitMultipart ==
    /\ mpPhase = "none"
    /\ handle = NoHandle
    /\ remoteLen = 0
    /\ calls = <<>>
    /\ adds = <<>>
    /\ lastOp = NoOp
    /\ panicked = FALSE

\* no DeleteBlobs call
InitDelete ==
    /\ delPc = "idle"
    /\ delItems = <<>>
    /\ delInput = <<>>
    /\ delIdx = 0
    /\ delIssued = <<>>
    /\ delPaths = <<>>
    /\ delResults = <<>>
    /\ delAnswers = <<>>
    /\ delErr = NoErr

\* no rename, and no application of the path mapper or of the classifier
InitOther ==
    /\ renOut = NoRename
    /\ pathOut = NoPath
    /\ classOut = NoClass

----------------------------------------------------------------------------
(* The upload sessions of one caller *)

MultipartInit ==
    /\ bucket \in Buckets
    /\ InitMultipart
    /\ InitDelete
    /\ fs = EmptyFs
    /\ listOut = NoList
    /\ InitOther

MultipartNext ==
    \/ MultipartBlobBegin
    \/ ForeignHandle
    \/ MultipartBlobAdd
    \/ MultipartBlobCommit
    \/ MultipartBlobAbort

SpecMultipart == MultipartInit /\ [][MultipartNext]_vars

----------------------------------------------------------------------------
(* Listings of a remote tree *)

ListInit ==
    /\ bucket \in Buckets
    /\ InitMultipart
    /\ InitDelete
    /\ fs \in Trees(MaxNodes)
    /\ listOut = NoList
    /\ InitOther

ListNext == ListBlobs

SpecList == ListInit /\ [][ListNext]_vars

----------------------------------------------------------------------------
(* Batch deletes on a remote tree *)

DeleteInit ==
    /\ bucket \in Buckets
    /\ InitMultipart
    /\ InitDelete
    /\ fs \in Trees(MaxDelNodes)
    /\ listOut = NoList
    /\ InitOther

DeleteNext ==
    \/ DeleteBlobsCall
    \/ DeleteBlobsIteration
    \/ DeleteBlobsReturn

SpecDelete == DeleteInit /\ [][DeleteNext]_vars

----------------------------------------------------------------------------
(* Renames on a remote tree *)

RenameInit ==
    /\ bucket \in Buckets
    /\ InitMultipart
    /\ InitDelete
    /\ fs \in Trees(MaxDelNodes)
    /\ listOut = NoList
    /\ InitOther

RenameNext == RenameBlob

SpecRename == RenameInit /\ [][RenameNext]_vars

----------------------------------------------------------------------------
(* The path mapper and the classifier on their inputs *)

PureInit ==
    /\ bucket \in Buckets
    /\ InitMultipart
    /\ InitDelete
    /\ fs = EmptyFs
    /\ listOut = NoList
    /\ InitOther

PathNext == ApplyPath

SpecPath == PureInit /\ [][PathNext]_vars

ClassifierNext == ApplyClassifier

SpecClassifier == PureInit /\ [][ClassifierNext]_vars

----------------------------------------------------------------------------
(* Upload sessions and renames, one kind of operation in a run *)

CallsInit ==
    /\ bucket \in Buckets
    /\ InitMultipart
    /\ InitDelete
    /\ fs \in Trees(MaxDelNodes)
    /\ listOut = NoList
    /\ InitOther

\* upload sessions do not read the tree: they are run on the empty one
OnlyMultipart == fs = EmptyFs /\ ~renOut.called
OnlyRename == InitMultipart

CallsNext ==
    \/ OnlyMultipart /\ MultipartBlobBegin
    \/ OnlyMultipart /\ ForeignHandle
    \/ OnlyMultipart /\ Len(adds) < MaxLoggedAdds /\ MultipartBlobAdd
    \/ OnlyMultipart /\ MultipartBlobCommit
    \/ OnlyMultipart /\ MultipartBlobAbort
    \/ OnlyRename /\ RenameBlob

SpecCalls == CallsInit /\ [][CallsNext]_vars

----------------------------------------------------------------------------
(* Properties of the multipart emulator *)

RECURSIVE Sum(_)
Sum(s) == IF s = <<>> THEN 0 ELSE Head(s) + Sum(Tail(s))

IsDataAppend(c) == c.op = "APPEND" /\ c.syncFlag = "DATA"
DataAppends == SelectSeq(calls, IsDataAppend)

\* C1: in a session of sequential Adds the k-th Add appends its data at offset
\* s1+...+s(k-1), the handle's cumulative size after the Adds is s1+...+sn, and
\* Commit issues its zero-length close append at that cumulative size.
C1_OffsetsArePrefixSums ==
    /\ Len(DataAppends) = Len(adds)
    /\ \A k \in 1..Len(adds) :
          /\ DataAppends[k].hasOffset
          /\ DataAppends[k].offset = Sum(SubSeq(adds, 1, k - 1))
          /\ DataAppends[k].len = adds[k]
    /\ (mpPhase = "open" /\ handle.backendData = ADLv1Data) => handle.Size = Sum(adds)
    /\ (lastOp.op = "Add" /\ ~lastOp.panic) =>
          /\ Len(lastOp.calls) >= 1
          /\ lastOp.calls[1] = DataAppends[Len(adds)]
    /\ (lastOp.op = "Commit" /\ ~lastOp.panic) =>
          /\ handle.Size = Sum(adds)
          /\ Len(lastOp.calls) = 1
          /\ lastOp.calls[1].op = "APPEND"
          /\ lastOp.calls[1].len = 0
          /\ lastOp.calls[1].syncFlag = "CLOSE"
          /\ lastOp.calls[1].hasOffset
          /\ lastOp.calls[1].offset = Sum(adds)

\* Begin, Add(100), Add(50), Commit: second append at 100, commit at 150
C1_Witness ==
    /\ lastOp.op = "Commit"
    /\ adds = <<100, 50>>
    /\ handle.Size = 150
    /\ Len(DataAppends) = 2
    /\ DataAppends[2].offset = 100
    /\ lastOp.calls[1].offset = 150

\* C2: when Add's data append is classified as a bad-offset structured error, Add
\* issues one zero-length close append at the new cumulative offset under the same
\* lease, and if that probe succeeds Add returns success.
C2_BadOffsetProbe ==
    (lastOp.op = "Add" /\ Len(lastOp.class) >= 1 /\ IsBadOffset(lastOp.class[1])) =>
        /\ Len(lastOp.calls) = 2
        /\ lastOp.calls[2] =
               AppendCall(handle.Key, TRUE, Sum(adds), 0, "CLOSE", handle.UploadId)
        /\ lastOp.calls[2].leaseId = lastOp.calls[1].leaseId
        /\ lastOp.class[2] = NoErr => lastOp.err = NoErr

C2_Witness ==
    /\ lastOp.op = "Add"
    /\ Len(lastOp.class) = 2
    /\ IsBadOffset(lastOp.class[1])
    /\ lastOp.class[2] = NoErr
    /\ lastOp.err = NoErr
    /\ Len(adds) = 2

\* C3: Commit returns success when its close append is classified NotFound, and
\* returns every other classified error of that append.
C3_CommitSwallowsNotFound ==
    (lastOp.op = "Commit" /\ Len(lastOp.class) = 1) =>
        /\ lastOp.class[1] = ENOENT => lastOp.err = NoErr
        /\ lastOp.class[1] # ENOENT => lastOp.err = lastOp.class[1]

C3_Witness ==
    /\ lastOp.op = "Commit"
    /\ Len(lastOp.class) = 1
    /\ lastOp.class[1] = ENOENT
    /\ lastOp.err = NoErr
    /\ adds # <<>>

\* C4: Abort issues exactly one remote call, a zero-length close append with no
\* offset under the session's lease, and the object keeps every byte it held.
C4_AbortKeepsBytes ==
    [][(mpPhase = "open" /\ lastOp'.op = "Abort") =>
          /\ calls' = Append(calls, lastOp'.calls[1])
          /\ Len(lastOp'.calls) = 1
          /\ lastOp'.calls[1].op = "APPEND"
          /\ lastOp'.calls[1].len = 0
          /\ lastOp'.calls[1].syncFlag = "CLOSE"
          /\ ~lastOp'.calls[1].hasOffset
          /\ lastOp'.calls[1].leaseId = handle.UploadId
          /\ lastOp'.calls[1].path = handle.Key
          /\ remoteLen' = remoteLen]_vars

C4_Witness ==
    /\ lastOp.op = "Abort"
    /\ remoteLen = 150
    /\ Len(adds) = 2
    /\ Len(lastOp.calls) = 1

IsNotFoundError(e) == e.kind = "ADLv1Err" /\ e.status = 404

\* C13: when Add's data append is classified as a structured error with status
\* 404, Add returns InvalidArgument and issues no probe and no second append.
C13_NotFoundIsInvalidArgument ==
    (lastOp.op = "Add" /\ Len(lastOp.class) >= 1 /\ IsNotFoundError(lastOp.class[1])) =>
        /\ lastOp.err = EINVAL
        /\ Len(lastOp.calls) = 1
        /\ Len(lastOp.class) = 1
        /\ IsDataAppend(lastOp.calls[1])
        /\ calls[Len(calls)] = lastOp.calls[1]
        /\ Len(DataAppends) = Len(adds)

\* a second Add whose append is answered 404 with a decodable body
C13_Witness ==
    /\ lastOp.op = "Add"
    /\ Len(adds) = 2
    /\ Len(lastOp.class) = 1
    /\ IsNotFoundError(lastOp.class[1])
    /\ lastOp.err = EINVAL

ProbeFailed ==
    /\ lastOp.op = "Add"
    /\ Len(lastOp.class) = 2
    /\ IsBadOffset(lastOp.class[1])
    /\ lastOp.class[2] # NoErr

\* C14: when Add's data append is classified as a bad-offset structured error and
\* the probe fails too, Add returns the classified error of the data append, not
\* the probe's, and issues no further remote call.
C14_ReturnsOriginalError ==
    ProbeFailed =>
        /\ lastOp.err = lastOp.class[1]
        /\ Len(lastOp.calls) = 2

\* C14 as the code has it: Add returns the data append's response classified again
\* through the status table, InvalidArgument for its status 400: neither the
\* structured error nor the probe's error; no further remote call is issued.
C14_ReturnsReclassifiedOriginal ==
    ProbeFailed =>
        /\ lastOp.err = EINVAL
        /\ lastOp.err = mapADLv1Error(Resp(lastOp.class[1].status, TRUE, ""), NoErr, FALSE)
        /\ Len(lastOp.calls) = 2
        /\ IsDataAppend(lastOp.calls[1])
        /\ lastOp.calls[2].syncFlag = "CLOSE"

\* the probe is classified Transient/Retryable and Add returns InvalidArgument
C14_Witness ==
    /\ ProbeFailed
    /\ lastOp.class[2] = EAGAIN
    /\ lastOp.err = EINVAL
    /\ Len(lastOp.calls) = 2

\* C18: the cumulative size of a handle is 0 right after Begin, never decreases,
\* and is changed only by Add, which adds the declared size before its remote
\* call; it equals the sum of the declared sizes of all Adds invoked on the
\* handle, failed ones included; Commit, Abort and the probe leave it unchanged.
C18_SizeIsSumOfAdds ==
    [][/\ (lastOp'.op = "Begin" /\ mpPhase' = "open") => handle'.Size = 0
       /\ (mpPhase' # "none" /\ handle'.backendData = ADLv1Data) =>
             handle'.Size = Sum(adds')
       /\ mpPhase = "open" =>
             /\ handle'.Size >= handle.Size
             /\ handle'.Size # handle.Size => lastOp'.op = "Add"
             /\ (lastOp'.op = "Add" /\ ~lastOp'.panic) =>
                   /\ handle'.Size = handle.Size + lastOp'.size
                   /\ adds' = Append(adds, lastOp'.size)
                   /\ lastOp'.calls[1].offset + lastOp'.size = handle'.Size
                   /\ Len(lastOp'.calls) = 2 => lastOp'.calls[2].offset = handle'.Size
             /\ lastOp'.op \in {"Commit", "Abort"} => handle' = handle]_vars

\* a first Add of 100 that succeeded, then an Add of 50 that failed
C18_Witness ==
    /\ lastOp.op = "Add"
    /\ lastOp.err # NoErr
    /\ adds = <<100, 50>>
    /\ handle.Size = 150
    /\ remoteLen = 100

ForeignHeld == mpPhase # "none" /\ handle.backendData = ForeignData

\* C19: a handle whose backendData is not this backend's record aborts the
\* process: Add and Commit panic on it before any remote call, and no multipart
\* operation (Add, Commit or Abort) issues a remote call with such a handle.
C19_ForeignHandleNeverCalls ==
    ForeignHeld =>
        /\ calls = <<>>
        /\ lastOp.calls = <<>>
        /\ lastOp.op \in {"Add", "Commit"} => (lastOp.panic /\ panicked)

\* the part of C19 about Add and Commit alone
C19_AddAndCommitPanic ==
    (ForeignHeld /\ lastOp.op \in {"Add", "Commit"}) =>
        /\ lastOp.panic
        /\ panicked
        /\ calls = <<>>
        /\ lastOp.calls = <<>>

\* C20: against a remote that takes an append only at the end of the object,
\* whenever an Add returns success, directly or through bad-offset recovery, the
\* handle's cumulative size equals the length of the remote object, whatever
\* Adds succeeded or failed before on the handle.
C20_SuccessMeansInStep ==
    (lastOp.op = "Add" /\ ~lastOp.panic /\ lastOp.err = NoErr) =>
        /\ handle.Size = remoteLen
        /\ remoteLen = Sum(adds)

\* a second Add that succeeds through the probe, its append having landed
C20_Witness ==
    /\ lastOp.op = "Add"
    /\ lastOp.err = NoErr
    /\ Len(lastOp.class) = 2
    /\ IsBadOffset(lastOp.class[1])
    /\ adds = <<50, 100>>
    /\ handle.Size = 150
    /\ remoteLen = 150

\* an Add that fails is followed by Adds that fail: the object is behind the handle
C20_WitnessBehind ==
    /\ lastOp.op = "Add"
    /\ lastOp.err # NoErr
    /\ Len(adds) = 3
    /\ remoteLen = 0

----------------------------------------------------------------------------
(* Properties of the deletion orderer *)

Components(p) == SelectSeq(Split(p), NonEmpty)
\* remote path pd lies below remote path pa
Descends(pd, pa) ==
    LET a == Components(pa)
        d == Components(pd)
    IN  Len(a) < Len(d) /\ SubSeq(d, 1, Len(a)) = a

\* C5: whenever the batch holds a key and a key naming a descendant of its remote
\* path, the descendant's delete is issued before the ancestor's.
C5_DescendantsFirst ==
    \A i \in 1..Len(delIssued) : \A n \in 1..Len(delInput) :
        Descends(path(TrimRight(delInput[n])), delPaths[i]) =>
            \E j \in 1..(i - 1) : delIssued[j] = delInput[n]

\* the same for batches whose keys carry no leading delimiter
C5_HoldsWithoutLeadingDelimiter ==
    (\A n \in 1..Len(delInput) : Head(delInput[n]) # "/") => C5_DescendantsFirst

\* C6: single-key deletes are issued one at a time in sorted order; the first
\* failing one (a classified error, or operation-succeeded = false surfaced as
\* NotFound) ends the batch with its error, no later key is deleted, and the keys
\* deleted before it stay deleted.
C6_FirstFailureAborts ==
    /\ \A i \in 1..Len(delItems) : \A j \in (i + 1)..Len(delItems) :
          ~itemLess(delItems[j], delItems[i])
    /\ delIssued = SubSeq(delItems, 1, Len(delIssued))
    /\ Len(delResults) = Len(delIssued)
    /\ \A i \in 1..(Len(delResults) - 1) : delResults[i] = NoErr
    /\ \A i \in 1..Len(delAnswers) :
          (Is2xx(delAnswers[i].reply) /\ ~delAnswers[i].result) => delResults[i] = ENOENT
    /\ \A i \in 1..Len(delResults) :
          delResults[i] = NoErr =>
              (TypeOf(fs, delPaths[i]) = "none" \/ BelowBucket(delPaths[i]) = <<>>)
    /\ (Len(delResults) >= 1 /\ delResults[Len(delResults)] # NoErr) =>
          /\ delPc = "returned"
          /\ delErr = delResults[Len(delResults)]
    /\ (delPc = "returned" /\ delErr = NoErr) =>
          /\ delIssued = delItems
          /\ \A i \in 1..Len(delResults) : delResults[i] = NoErr

\* a batch of three whose second delete finds nothing: the third is never issued
C6_Witness ==
    /\ delPc = "returned"
    /\ delErr = ENOENT
    /\ Len(delItems) = 3
    /\ Len(delIssued) = 2
    /\ delResults[1] = NoErr
    /\ Is2xx(delAnswers[2].reply)
    /\ ~delAnswers[2].result

----------------------------------------------------------------------------
(* Properties of the listing engine *)

ListedKey == nilStr(listOut.prefix)
\* the key of entry n of the listed directory
Under(d, n) == IF TrimRight(d) = <<>> THEN n ELSE TrimRight(d) \o <<"/">> \o n
\* the listing ran and its first remote call succeeded
TopListed ==
    /\ listOut.called
    /\ listOut.err = NoErr
    /\ Len(listOut.calls) >= 1
    /\ listOut.calls[1].err = NoErr
Delimited == ~listOut.delimiter.isNil /\ listOut.delimiter.val = <<"/">>
\* the listed path is a directory holding exactly a leaf a and a directory b
HoldsLeafAndDir ==
    /\ TypeOf(fs, path(ListedKey)) = "DIRECTORY"
    /\ FileStatuses(fs, path(ListedKey)) =
          <<[PathSuffix |-> <<"a">>, Type |-> "FILE"],
            [PathSuffix |-> <<"b">>, Type |-> "DIRECTORY"]>>

\* C7 as stated: a non-recursive listing of a directory d holding a leaf a and a
\* directory b returns exactly one prefix row, d/b/, and exactly one item row,
\* d/a, and issues no listing call for b.
C7_ExactlyTwoRows ==
    (TopListed /\ Delimited /\ HoldsLeafAndDir) =>
        /\ listOut.prefixes = <<Under(ListedKey, <<"b", "/">>)>>
        /\ listOut.items = <<Under(ListedKey, <<"a">>)>>
        /\ Len(listOut.calls) = 1

\* C7 amended: the result holds the prefix row d/b/ and the item row d/a once each
\* and no listing call is issued for b; a non-empty queried prefix adds one row
\* for d itself before them: the prefix row d/ when the prefix does not end with
\* the delimiter, an item row keyed by the prefix when it does.
C7_RowsWithSelfRow ==
    (TopListed /\ Delimited /\ HoldsLeafAndDir) =>
        /\ listOut.prefixes =
              (IF ListedKey # <<>> /\ ~HasSuffix(ListedKey)
               THEN <<ListedKey \o <<"/">>>> ELSE <<>>)
              \o <<Under(ListedKey, <<"b", "/">>)>>
        /\ listOut.items =
              (IF ListedKey # <<>> /\ HasSuffix(ListedKey)
               THEN <<ListedKey>> ELSE <<>>)
              \o <<Under(ListedKey, <<"a">>)>>
        /\ Len(listOut.calls) = 1

C7_Witness ==
    /\ TopListed
    /\ Delimited
    /\ HoldsLeafAndDir
    /\ ListedKey = <<"a">>
    /\ listOut.prefixes = << <<"a", "/">>, <<"a", "/", "b", "/">> >>
    /\ listOut.items = << <<"a", "/", "a">> >>

\* the entries of the tree below the listed directory, as paths relative to it
BelowListed ==
    LET dq == BelowBucket(path(ListedKey))
        Rel(q) == IF dq = <<>> THEN q ELSE SubSeq(q, Len(dq) + 2, Len(q))
        Below(q) == dq = <<>> \/ HasPrefix(q, dq \o <<"/">>)
    IN  [files |-> {Rel(q) : q \in {x \in fs.files : Below(x)}},
         dirs |-> {Rel(q) : q \in {x \in fs.dirs : Below(x)}}]
\* one row per entry: a leaf's key, a directory's key with the delimiter
ExpectedItems ==
    {Under(ListedKey, q) : q \in BelowListed.files}
    \cup {Under(ListedKey, q) \o <<"/">> : q \in BelowListed.dirs}
Count(seq, x) == Cardinality({i \in 1..Len(seq) : seq[i] = x})
RowPerEntry ==
    /\ listOut.prefixes = <<>>
    /\ \A x \in ExpectedItems : Count(listOut.items, x) = 1
    /\ \A i \in 1..Len(listOut.items) : listOut.items[i] \in ExpectedItems

\* C8: in a recursive listing every directory encountered contributes exactly one
\* item row (its key with the delimiter), every leaf exactly one item row, and the
\* result holds no prefix rows.
C8_RowPerEntry ==
    (TopListed /\ listOut.recursive /\ TypeOf(fs, path(ListedKey)) = "DIRECTORY") =>
        RowPerEntry

\* the same for listings none of whose nested listing calls failed
C8_HoldsWithoutNestedFailure ==
    (/\ TopListed
     /\ listOut.recursive
     /\ TypeOf(fs, path(ListedKey)) = "DIRECTORY"
     /\ \A i \in 1..Len(listOut.calls) : listOut.calls[i].err = NoErr) =>
        RowPerEntry

\* C9: when a non-empty prefix is listed and the remote returns exactly one entry
\* with an empty path suffix, the result is one item row keyed by the prefix and
\* no prefix rows when the prefix does not end with the delimiter, no rows at all
\* when it does, and no further listing call is issued.
C9_FilePrefix ==
    (/\ TopListed
     /\ ListedKey # <<>>
     /\ TypeOf(fs, path(ListedKey)) = "FILE") =>
        /\ FileStatuses(fs, path(ListedKey)) = <<[PathSuffix |-> <<>>, Type |-> "FILE"]>>
        /\ listOut.prefixes = <<>>
        /\ listOut.items = IF HasSuffix(ListedKey) THEN <<>> ELSE <<ListedKey>>
        /\ Len(listOut.calls) = 1

C9_Witness ==
    /\ TopListed
    /\ Delimited
    /\ ListedKey = <<"a", "/">>
    /\ TypeOf(fs, path(ListedKey)) = "FILE"
    /\ listOut.items = <<>>
    /\ listOut.prefixes = <<>>

\* the listed directory holds a directory
HoldsDir ==
    /\ TypeOf(fs, path(ListedKey)) = "DIRECTORY"
    /\ \E i \in 1..Len(FileStatuses(fs, path(ListedKey))) :
          FileStatuses(fs, path(ListedKey))[i].Type = "DIRECTORY"

\* C10: ListBlobs returns NotSupported without a remote call when the delimiter is
\* absent and a continuation token or start-after marker is given, and when the
\* delimiter is not "/"; without delimiter and token it lists recursively (it
\* descends into directories), with delimiter "/" it does not.
C10_Unsupported ==
    listOut.called =>
        IF \/ listOut.delimiter.isNil /\ (~listOut.token.isNil \/ ~listOut.startAfter.isNil)
           \/ ~listOut.delimiter.isNil /\ listOut.delimiter.val # <<"/">>
        THEN /\ listOut.err = ENOTSUP
             /\ listOut.calls = <<>>
             /\ listOut.prefixes = <<>>
             /\ listOut.items = <<>>
        ELSE /\ listOut.err # ENOTSUP
             /\ Len(listOut.calls) >= 1
             /\ (listOut.delimiter.isNil /\ TopListed /\ HoldsDir) =>
                   (Len(listOut.calls) >= 2 /\ listOut.prefixes = <<>>)
             /\ ~listOut.delimiter.isNil => Len(listOut.calls) = 1

C10_Witness ==
    /\ listOut.called
    /\ listOut.delimiter.isNil
    /\ listOut.token.isNil
    /\ ~listOut.startAfter.isNil
    /\ listOut.err = ENOTSUP
    /\ listOut.calls = <<>>

----------------------------------------------------------------------------
(* Properties of rename *)

\* C11: Rename issues a single remote rename, with the overwrite option set; when
\* the remote answers "operation succeeded" = false Rename returns NotFound, and
\* when it answers true Rename returns success.
C11_RenameOnceWithOverwrite ==
    renOut.called =>
        /\ Len(renOut.calls) <= 1
        /\ renOut.class[1].err = NoErr => Len(renOut.calls) = 1
        /\ \A i \in 1..Len(renOut.calls) :
              renOut.calls[i] =
                  [op |-> "RENAME", path |-> path(renOut.source),
                   destination |-> path(renOut.destination),
                   renameoptions |-> "OVERWRITE"]
        /\ renOut.result = "false" => renOut.err = ENOENT
        /\ renOut.result = "true" => renOut.err = NoErr

\* a rename of a source the tree does not hold, answered false
C11_Witness ==
    /\ renOut.called
    /\ Len(renOut.calls) = 1
    /\ renOut.calls[1].renameoptions = "OVERWRITE"
    /\ renOut.result = "false"
    /\ renOut.err = ENOENT
    /\ TypeOf(fs, path(renOut.source)) = "none"

----------------------------------------------------------------------------
(* Properties of the path mapper *)

\* C12: for all keys the path mapper is idempotent, path(path(key)) = path(key),
\* and an empty key maps to the root prefix itself.
C12_PathIdempotent ==
    pathOut.called =>
        /\ pathOut.twice = pathOut.once
        /\ pathOut.key = <<>> => pathOut.once = bucket

\* C12 as the code has it: with an empty root prefix mapping a mapped key leaves
\* it unchanged; with a non-empty root prefix the second mapping joins the root
\* again; an empty key maps to the root prefix itself.
C12_IdempotentWithEmptyRoot ==
    pathOut.called =>
        /\ bucket = <<>> => pathOut.twice = pathOut.once
        /\ bucket # <<>> => pathOut.twice = bucket \o <<"/">> \o pathOut.once
        /\ pathOut.key = <<>> => pathOut.once = bucket

\* empty root: "//a/" maps to "a/", and "a/" maps to itself
C12_Witness ==
    /\ pathOut.called
    /\ bucket = <<>>
    /\ pathOut.key = <<"/", "/", "a", "/">>
    /\ pathOut.once = <<"a", "/">>
    /\ pathOut.twice = <<"a", "/">>

----------------------------------------------------------------------------
(* Properties of the classifier *)

\* the values the classifier can yield
ErrorValues ==
    {NoErr, TransportErr} \cup {Errno(e) : e \in {"EAGAIN", "EINVAL", "ENOENT", "EACCES",
                                                  "ENOTSUP", "EEXIST"}}
    \cup {ADLv1Err(st, x) : st \in ClassStatuses, x \in Exceptions}

\* C15: the classifier is total and yields: no response and a transport error ->
\* Transient/Retryable; no response and no transport error -> no error; status
\* 200-299 -> no error; a failure status with wantStructuredBody -> the structured
\* error carrying the exception name when the body parses, Transient/Retryable
\* when it does not; a failure status without wantStructuredBody -> the status
\* table's error, or InvalidArgument when the table has no entry for the status.
C15_ClassifierCases ==
    classOut.called =>
        LET r == classOut.resp
            inTable == mapHttpError(r.status) # NoErr
        IN  /\ classOut.result \in ErrorValues
            /\ (r.isNil /\ classOut.err # NoErr) => classOut.result = EAGAIN
            /\ (r.isNil /\ classOut.err = NoErr) => classOut.result = NoErr
            /\ (~r.isNil /\ r.status \in 200..299) => classOut.result = NoErr
            /\ (~r.isNil /\ r.status \notin 200..299 /\ classOut.rawError /\ r.parses) =>
                  /\ classOut.result.kind = "ADLv1Err"
                  /\ classOut.result.exception = r.exception
                  /\ classOut.result.status = r.status
            /\ (~r.isNil /\ r.status \notin 200..299 /\ classOut.rawError /\ ~r.parses) =>
                  classOut.result = EAGAIN
            /\ (~r.isNil /\ r.status \notin 200..299 /\ ~classOut.rawError /\ inTable) =>
                  classOut.result = mapHttpError(r.status)
            /\ (~r.isNil /\ r.status \notin 200..299 /\ ~classOut.rawError /\ ~inTable) =>
                  classOut.result = EINVAL

\* a 404 whose body does not parse, classified for a caller that wants the body
C15_Witness ==
    /\ classOut.called
    /\ ~classOut.resp.isNil
    /\ classOut.resp.status = 404
    /\ ~classOut.resp.parses
    /\ classOut.rawError
    /\ classOut.result = EAGAIN

----------------------------------------------------------------------------
(* Properties of the calls to the classifier *)

\* how often the classifier was handed the result of the k-th call of an operation
TimesClassified(log, k) == Cardinality({i \in DOMAIN log : log[i].call = k})

\* the first verdicts on the calls come in the order of the calls
FirstVerdictsInOrder(log, n) ==
    \A k \in 1..n :
        \E i \in DOMAIN log :
            /\ log[i].call = k
            /\ \A j \in 1..(i - 1) : log[j].call <= k

AddClassifiesAgain ==
    /\ lastOp.op = "Add"
    /\ Len(lastOp.class) >= 1
    /\ lastOp.class[1].kind = "ADLv1Err"
    /\ lastOp.class[1].status # 404
    /\ lastOp.err # NoErr

----------------------------------------------------------------------------
(* Properties of the errors of a listing *)

\* C17: only a not-found of the top-level listing call becomes an empty
\* successful result; when a nested listing call of a recursive listing is
\* classified as an error, ListBlobs returns that error.
C17_NestedErrorReturned ==
    (listOut.called /\ Len(listOut.calls) >= 1) =>
        /\ (Len(listOut.calls) = 1 /\ listOut.calls[1].err = ENOENT) =>
              (listOut.err = NoErr /\ listOut.prefixes = <<>> /\ listOut.items = <<>>)
        /\ \A i \in 2..Len(listOut.calls) :
              listOut.calls[i].err # NoErr => listOut.err = listOut.calls[i].err

\* the top-level part of C17 alone: a not-found of the first listing call gives an
\* empty successful result, any other error of that call is returned
C17_TopLevelNotFoundIsEmpty ==
    (listOut.called /\ Len(listOut.calls) >= 1 /\ listOut.calls[1].err # NoErr) =>
        /\ Len(listOut.calls) = 1
        /\ listOut.prefixes = <<>>
        /\ listOut.items = <<>>
        /\ listOut.err = IF listOut.calls[1].err = ENOENT THEN NoErr
                         ELSE listOut.calls[1].err

----------------------------------------------------------------------------
(* Properties of the rows of a listing *)

\* the rows emitted for the entries of the directory that listing call c fetched
EntryRows(c) ==
    LET base == TrimRight(c.key)
        entries == FileStatuses(fs, c.path)
        Key(e) == IF base # <<>> THEN base \o <<"/">> \o e.PathSuffix ELSE e.PathSuffix
    IN  {[dir |-> entries[i].Type = "DIRECTORY", key |-> Key(entries[i])] :
            i \in 1..Len(entries)}

\* the row is in the result handed to the caller
RowReturned(row) ==
    IF ~row.dir THEN Count(listOut.items, row.key) >= 1
    ELSE IF listOut.recursive THEN Count(listOut.items, row.key \o <<"/">>) >= 1
    ELSE Count(listOut.prefixes, row.key \o <<"/">>) >= 1

FetchedDirectory(c) == c.err = NoErr /\ TypeOf(fs, c.path) = "DIRECTORY"

\* C21: within one listing call the rows only grow: every row emitted for an
\* entry of a successfully fetched directory listing is in the result returned,
\* whatever the outcome of the listing calls issued later in the traversal.
C21_RowsAreKept ==
    listOut.called =>
        \A i \in 1..Len(listOut.calls) :
            FetchedDirectory(listOut.calls[i]) =>
                \A row \in EntryRows(listOut.calls[i]) : RowReturned(row)

\* C21 in the listings none of whose calls fails
C21_HoldsWithoutFailure ==
    (listOut.called /\ \A i \in 1..Len(listOut.calls) : listOut.calls[i].err = NoErr) =>
        \A i \in 1..Len(listOut.calls) :
            FetchedDirectory(listOut.calls[i]) =>
                \A row \in EntryRows(listOut.calls[i]) : RowReturned(row)

====
